---- MODULE Spec2Model ----
(***************************************************************************)
(* A model of astroplan/scheduling.py: the Schedule slot algebra           *)
(* (Slot.split_slot, Schedule.insert_slot, Schedule.change_slot_block),    *)
(* the Transitioner, and the SequentialScheduler and PriorityScheduler.    *)
(*                                                                         *)
(* Time is counted in half seconds: a Time is an integer number of half    *)
(* seconds since an epoch, a duration an integer number of half seconds,   *)
(* so that the 1 second tolerance of insert_slot is 2 units and instants   *)
(* strictly inside the tolerance exist.  Python objects (blocks, lists)    *)
(* live in heaps and are referred to by their index, so that aliasing and  *)
(* mutation through a shared reference are visible.                        *)
(***************************************************************************)
EXTENDS Integers, Sequences, FiniteSets, TLC

VARIABLES
    schedules,  \* the Schedule objects, by id: [start_time, end_time, slots]
    heap,       \* the block objects (ObservingBlock, TransitionBlock), by id
    lists,      \* the constraint list objects, by id
    schedulers, \* the Scheduler objects, by id
    calls,      \* the frame of each caller / each run of Scheduler.__call__
    given,      \* heap, lists and the callers' block lists as the callers built them
    tr          \* the last Transitioner call the caller made by hand, and its result

vars == <<schedules, heap, lists, schedulers, calls, given, tr>>

----------------------------------------------------------------------------
\* Bounds of the model.

\* End of the horizon of a Schedule the caller drives by hand (start is 0).
HorizonApi == 8
\* Largest number of insert_slot / change_slot_block calls of the caller.
MaxCalls == 3
\* Largest duration of a block the caller hands to the Schedule by hand.
MaxApiDur == 5
\* End of the horizon of a Schedule handed to a Scheduler (start is 0).
Horizon == 32
\* Largest number of blocks in the list handed to a Scheduler.
MaxBlocks == 3

----------------------------------------------------------------------------
\* Program constants.

\* 1*u.second, the tolerance of insert_slot, in half seconds.
Tol == 2
\* Python's None where an object reference is expected.
None == 0
\* Python's None where a Time is expected (block.start_time = None).
NoTime == -999

\* An attribute that has not been set on an object.
Unset == NoTime

Abs(x) == IF x < 0 THEN -x ELSE x

SetMax(S) == CHOOSE m \in S : \A x \in S : x <= m

\* A function on 1..n as the list of its values.
AsList(f) == SubSeq(f, 1, Len(f))

----------------------------------------------------------------------------
\* Slot

\* Slot.__init__
Slot(start_time, end_time) ==
    [start |-> start_time, end |-> end_time, occupied |-> FALSE,
     middle |-> FALSE, block |-> None]

\* Slot.duration
SlotDuration(slot) == slot.end - slot.start

\* Slot.split_slot on an unoccupied slot: the fragments replacing it.
SplitSlot(self, early_time, later_time) ==
    LET new_slot   == [Slot(early_time, later_time) EXCEPT !.middle = TRUE]
        early_slot == Slot(self.start, early_time)
        late_slot  == Slot(later_time, self.end)
    IN  IF early_time > self.start /\ later_time < self.end
          THEN <<early_slot, new_slot, late_slot>>
        ELSE IF early_time > self.start
          THEN <<early_slot, new_slot>>
        ELSE IF later_time < self.end
          THEN <<new_slot, late_slot>>
        ELSE <<new_slot>>

----------------------------------------------------------------------------
\* Blocks

\* ObservingBlock.__init__
ObservingBlock(target, duration, priority, configuration, constraints) ==
    [kind |-> "ObservingBlock", target |-> target, duration |-> duration,
     priority |-> priority, configuration |-> configuration,
     constraints |-> constraints, start_time |-> NoTime, end_time |-> NoTime,
     observer |-> None, components |-> {},
     \* attributes a scheduler adds to its copy; None until it does
     all_constraints |-> None, offsets_of |-> Unset, end_idx |-> Unset,
     constraints_value |-> Unset]

\* TransitionBlock.components (setter): the duration is the sum of the
\* components' times.
RECURSIVE SumTimes(_)
SumTimes(components) ==
    IF components = {} THEN 0
    ELSE LET c == CHOOSE c \in components : TRUE
         IN  c[2] + SumTimes(components \ {c})

\* TransitionBlock.__init__ ; end_time is a property, EndTime below.
TransitionBlock(components, start_time) ==
    [kind |-> "TransitionBlock", target |-> None,
     duration |-> SumTimes(components),
     priority |-> 0, configuration |-> {}, constraints |-> None,
     start_time |-> start_time, end_time |-> NoTime,
     observer |-> None, components |-> components,
     all_constraints |-> None, offsets_of |-> Unset, end_idx |-> Unset,
     constraints_value |-> Unset]

\* TransitionBlock.from_duration
FromDuration(duration) == TransitionBlock({<<"duration", duration>>}, NoTime)

\* TransitionBlock.end_time (the property) and ObservingBlock.end_time (the
\* attribute).  Of a transition without a start time it is a TypeError, which
\* the callers test for before they use it.
EndTime(block) ==
    IF block.kind = "TransitionBlock"
      THEN block.start_time + block.duration
      ELSE block.end_time

----------------------------------------------------------------------------
\* Schedule

\* Schedule.__init__
NewSchedule(start_time, end_time) ==
    [start_time |-> start_time, end_time |-> end_time,
     slots |-> <<Slot(start_time, end_time)>>]

\* insert_slot, the loop of lines 296-299: the candidates for slot_index.
SlotCandidates(slots, start_time) ==
    {j \in 1..Len(slots) :
        /\ (slots[j].start < start_time
              \/ Abs(slots[j].start - start_time) < Tol)
        /\ slots[j].end > start_time + Tol}

\* insert_slot, line 300: the guard of `raise ValueError('longer block than slot')`.
LongerThanSlot(duration, slot) == duration - SlotDuration(slot) > Tol

\* insert_slot, line 306: abs() is applied to the comparison's result, so the
\* test is the comparison itself.
FillsSlot(duration, slot) == SlotDuration(slot) - duration < Tol

\* What a call on a Schedule leaves: the Schedule, the heap of blocks and the
\* exception the call raised ("none": it returned).
Outcome(sch, hp, err) == [schedule |-> sch, heap |-> hp, err |-> err]

\* The middle fragment takes the block, its occupied flag left as it was.
OccupyBlockOnly(new_slots, b) ==
    [k \in 1..Len(new_slots) |->
        IF new_slots[k].middle
          THEN [new_slots[k] EXCEPT !.block = b]
          ELSE new_slots[k]]

\* insert_slot, lines 324-327: the middle fragment takes the block.
Occupy(new_slots, b) ==
    [k \in 1..Len(new_slots) |->
        IF new_slots[k].middle
          THEN [new_slots[k] EXCEPT !.occupied = TRUE, !.block = b]
          ELSE new_slots[k]]

\* insert_slot with a split_slot that does not look at slot.occupied.
InsertSlotBlockOverwrite(sch, hp, b, slot_index, t) ==
    Outcome(
      [sch EXCEPT !.slots =
          SubSeq(sch.slots, 1, slot_index - 1)
            \o [k \in 1..Len(SplitSlot(sch.slots[slot_index],
                                       t.start_time, t.end_time)) |->
                  IF SplitSlot(sch.slots[slot_index],
                               t.start_time, t.end_time)[k].middle
                    THEN [SplitSlot(sch.slots[slot_index],
                                    t.start_time, t.end_time)[k]
                            EXCEPT !.occupied = TRUE, !.block = b]
                    ELSE SplitSlot(sch.slots[slot_index],
                                   t.start_time, t.end_time)[k]]
            \o SubSeq(sch.slots, slot_index + 1, Len(sch.slots))],
      [hp EXCEPT ![b].duration = t.duration, ![b].start_time = t.start_time],
      "none")

\* insert_slot, lines 317-329, with t the duration, start_time and end_time
\* the branches of lines 306-316 chose.  The block's attributes are assigned
\* before split_slot looks at slot.occupied.
InsertSlotBlock(sch, hp, b, slot_index, t) ==
    LET slot == sch.slots[slot_index]
        hp1 == [hp EXCEPT ![b].duration = t.duration,
                          ![b].end_time =
                              IF hp[b].kind = "ObservingBlock"
                                THEN t.start_time + t.duration ELSE @,
                          ![b].start_time = t.start_time]
    IN  IF slot.occupied
          THEN Outcome(sch, hp1, "ValueError: slot is already occupied")
          ELSE Outcome(
                 [sch EXCEPT !.slots =
                     SubSeq(sch.slots, 1, slot_index - 1)
                       \o Occupy(SplitSlot(slot, t.start_time, t.end_time), b)
                       \o SubSeq(sch.slots, slot_index + 1, Len(sch.slots))],
                 hp1, "none")

\* insert_slot, lines 306-316: the block's duration and the new slot's times.
SlotTimes(slot, duration, start_time) ==
    IF FillsSlot(duration, slot)
      THEN [duration |-> SlotDuration(slot), start_time |-> slot.start,
            end_time |-> slot.end]
    ELSE IF Abs(slot.start - start_time) < Tol
      THEN [duration |-> duration, start_time |-> slot.start,
            end_time |-> slot.start + duration]
    ELSE IF Abs(slot.end - start_time - duration) < Tol
      THEN [duration |-> duration, start_time |-> start_time,
            end_time |-> slot.end]
    ELSE [duration |-> duration, start_time |-> start_time,
          end_time |-> start_time + duration]

\* insert_slot, lines 300-304, with slot_index as the loop left it.
InsertSlotAt(sch, hp, start_time, b, slot_index) ==
    LET slot == sch.slots[slot_index]
        duration == hp[b].duration
    IN  IF LongerThanSlot(duration, slot)
          THEN Outcome(sch, hp, "ValueError: longer block than slot")
          ELSE InsertSlotBlock(sch, hp, b, slot_index,
                   SlotTimes(slot, duration,
                       IF slot.end - duration < start_time
                         THEN slot.end - duration ELSE start_time))

\* Schedule.insert_slot(start_time, block) with block the heap object b.
InsertSlot(sch, hp, start_time, b) ==
    IF start_time = NoTime
      THEN Outcome(sch, hp, "TypeError")           \* slot.start < None
    ELSE IF SlotCandidates(sch.slots, start_time) = {}
      THEN Outcome(sch, hp, "UnboundLocalError")   \* slot_index was never bound
    ELSE InsertSlotAt(sch, hp, start_time, b,
                      SetMax(SlotCandidates(sch.slots, start_time)))

\* change_slot_block without line 340: the following slot keeps its start.
ChangeSlotBlockOnly(sch, hp, slot_index, new_block) ==
    LET slots == sch.slots
        slots1 == [slots EXCEPT
                     ![slot_index].end =
                         slots[slot_index].start + hp[new_block].duration,
                     ![slot_index].block = new_block]
    IN  IF slot_index + 1 > Len(slots)
          THEN Outcome([sch EXCEPT !.slots = slots1], hp,
                       "IndexError: list index out of range")
        ELSE IF slots1[slot_index + 1].block # None
          THEN Outcome([sch EXCEPT !.slots = slots1], hp,
                       "IndexError: slot afterwards is full")
        ELSE Outcome([sch EXCEPT !.slots = slots1], hp, "none")

\* change_slot_block moving the following slot as a whole: its end shifts by
\* as much as its start.
ChangeSlotBlockShift(sch, hp, slot_index, new_block) ==
    IF ChangeSlotBlockOnly(sch, hp, slot_index, new_block).err # "none"
      THEN ChangeSlotBlockOnly(sch, hp, slot_index, new_block)
      ELSE Outcome(
             [sch EXCEPT !.slots =
                 [ChangeSlotBlockOnly(sch, hp, slot_index, new_block)
                    .schedule.slots
                  EXCEPT ![slot_index + 1].start =
                             sch.slots[slot_index].start
                               + hp[new_block].duration,
                         ![slot_index + 1].end =
                             @ + sch.slots[slot_index].start
                               + hp[new_block].duration
                               - sch.slots[slot_index + 1].start]],
             hp, "none")

\* Schedule.change_slot_block(slot_index, new_block), slot_index counted from 1.
ChangeSlotBlock(sch, hp, slot_index, new_block) ==
    LET slots == sch.slots
        new_end == slots[slot_index].start + hp[new_block].duration
        slots1 == [slots EXCEPT ![slot_index].end = new_end,
                                ![slot_index].block = new_block]
    IN  IF slot_index + 1 > Len(slots)
          THEN [schedule |-> [sch EXCEPT !.slots = slots1], heap |-> hp,
                err |-> "IndexError: list index out of range"]
        ELSE IF slots1[slot_index + 1].block # None
          THEN [schedule |-> [sch EXCEPT !.slots = slots1], heap |-> hp,
                err |-> "IndexError: slot afterwards is full"]
        ELSE [schedule |->
                 [sch EXCEPT !.slots =
                     [slots1 EXCEPT ![slot_index + 1].start = new_end]],
              heap |-> hp, err |-> "none"]


----------------------------------------------------------------------------
\* The collaborators of section 6 of the specification: constraint
\* evaluators and the angular separation of two targets.  Their code is not
\* part of scheduling.py; the model fixes five targets and three constraints.

\* The instant target "B" sets, the instant target "C" rises, and the
\* instant until which "air" scores target "A" best.
SetB == 16
RiseC == 16
BestUntil == 8

\* The targets: "A" is above the horizon at every instant, "B" and "D" set
\* at SetB, "C" rises at RiseC, "Z" never rises.
Targets == {"A", "B", "C", "D", "Z"}

\* The constraint objects: "alt" is an AltitudeConstraint(min=0 deg); "air"
\* is a graded constraint that is not an AltitudeConstraint, whose score
\* falls at BestUntil for target "A" and rises then for target "D"; "late" is a
\* constraint that scores 0 at every instant of the horizon and 1 from the
\* horizon end on.
IsAltitudeConstraint(c) == c = "alt"

\* constraint(observer, [target], times) at one instant.  The instant is
\* given doubled (tt = 2 * time), because the probe instants of the
\* SequentialScheduler lie at half durations.  Scores are non-negative; a
\* graded score is counted in halves of the best score.
ConstraintScore(c, target, tt) ==
    CASE c = "alt"  -> IF target = "A" THEN 1
                       ELSE IF target \in {"B", "D"}
                         THEN (IF tt < 2 * SetB THEN 1 ELSE 0)
                       ELSE IF target = "C" THEN (IF tt < 2 * RiseC THEN 0 ELSE 1)
                       ELSE 0
      [] c = "air"  -> IF target = "A" THEN (IF tt < 2 * BestUntil THEN 2 ELSE 1)
                       ELSE IF target = "D"
                         THEN (IF tt < 2 * BestUntil THEN 1 ELSE 2)
                       ELSE 1
      [] c = "late" -> IF tt < 2 * Horizon THEN 0 ELSE 1

\* The product of the scores of a list of constraints at one instant.
RECURSIVE ScoreProduct(_, _, _)
ScoreProduct(cs, target, tt) ==
    IF cs = <<>> THEN 1
    ELSE ConstraintScore(Head(cs), target, tt) * ScoreProduct(Tail(cs), target, tt)

\* aaz[0].separation(aaz[1]) in degrees, between 0 and 180.
Separation(t1, t2) ==
    IF t1 = t2 THEN 0
    ELSE IF {t1, t2} = {"A", "B"} THEN 80
    ELSE IF {t1, t2} = {"A", "C"} THEN 40
    ELSE IF {t1, t2} = {"B", "Z"} THEN 160
    ELSE 180

----------------------------------------------------------------------------
\* Transitioner

\* Transitioner.__init__ : slew_rate in degrees per half second or None;
\* instrument_reconfig_times is <<>> for None and <<table>> for a dict, the
\* table a set of entries [conf, old, new, time]: conf_name maps the
\* pair (old, new) to time; the entry of key 'default' has old = new =
\* "default".
Transitioner(slew_rate, instrument_reconfig_times) ==
    [slew_rate |-> slew_rate,
     instrument_reconfig_times |-> instrument_reconfig_times]

NoTable == <<>>

\* conf_times.get(key, None) as the set of the times found (empty: None).
ConfTime(table, conf, old, new) ==
    {e.time : e \in {e \in table : e.conf = conf /\ e.old = old /\ e.new = new}}

\* The components that take the default time of every key whose state
\* differs, whatever time the table has for the pair of states.
ComputeDefaultTransitions(self, oldblock, newblock) ==
    {<<c[1] \o ":" \o c[2] \o " to " \o n[2], e.time>> :
        <<c, n, e>> \in
            {x \in oldblock.configuration \X newblock.configuration
                     \X self.instrument_reconfig_times[1] :
                /\ x[1][1] = x[2][1] /\ x[1][2] # x[2][2]
                /\ x[3].conf = x[1][1] /\ x[3].old = "default"}}

\* Transitioner.compute_instrument_transitions
ComputeInstrumentTransitions(self, oldblock, newblock) ==
    LET table == self.instrument_reconfig_times[1]
        entry(c) ==
            \* c = <<conf_name, old_conf>> of oldblock.configuration
            LET news  == {n \in newblock.configuration : n[1] = c[1]}
                new_conf == (CHOOSE n \in news : TRUE)[2]
                ctime == ConfTime(table, c[1], c[2], new_conf)
                def_time == ConfTime(table, c[1], "default", "default")
                label == c[1] \o ":" \o c[2] \o " to " \o new_conf
            IN  IF news = {} \/ {e \in table : e.conf = c[1]} = {} THEN {}
                ELSE IF ctime # {}
                  THEN {<<label, CHOOSE t \in ctime : TRUE>>}
                ELSE IF def_time # {} /\ def_time # {0} /\ c[2] # new_conf
                  THEN {<<label, CHOOSE t \in def_time : TRUE>>}
                ELSE {}
    IN  UNION {entry(c) : c \in oldblock.configuration}

\* Transitioner.__call__, the else branch of line 800.
NoComponentsBlock(start_time) == FromDuration(0)

\* Transitioner.__call__, lines 796-801: the new TransitionBlock object.
TransitionOf(components, start_time) ==
    IF components # {}
      THEN TransitionBlock(components, start_time)
      ELSE NoComponentsBlock(start_time)

\* Transitioner.__call__(oldblock, newblock, start_time, observer).
TransitionerCall(self, oldblock, newblock, start_time) ==
    TransitionOf(
        (IF self.slew_rate # None
           THEN {<<"slew_time",
                   Separation(oldblock.target, newblock.target)
                      \div self.slew_rate>>}
           ELSE {})
        \cup
        (IF self.instrument_reconfig_times # NoTable
           THEN ComputeInstrumentTransitions(self, oldblock, newblock)
           ELSE {}),
        start_time)

----------------------------------------------------------------------------
\* Scheduler

\* Scheduler.__init__ ; schedule is the attribute __call__ sets.
Scheduler(kind, constraints, transitioner, gap_time, time_resolution) ==
    [kind |-> kind, constraints |-> constraints, transitioner |-> transitioner,
     gap_time |-> gap_time, time_resolution |-> time_resolution,
     observer |-> 1, schedule |-> None]

\* A call a caller made on its Schedule: the method and its arguments.
NoCall == [op |-> "none", start_time |-> NoTime, slot_index |-> None,
           block |-> None, duration |-> 0]

\* The frame of a caller: of one that drives a Schedule by hand (pc = "api",
\* n calls made, the last of them `last`) or of one run of
\* Scheduler.__call__(blocks, schedule) on scheduler self, where copied is
\* the list line 445 made and blocks the local of _make_schedule;
\* best_time_idx is the local line 660 binds.
Frame(pc, self, sched, in_blocks) ==
    [pc |-> pc, self |-> self, schedule |-> sched, in_blocks |-> in_blocks,
     copied |-> <<>>, blocks |-> <<>>, current_time |-> NoTime,
     result |-> None, err |-> "none", n |-> 0, last |-> NoCall,
     is_open_time |-> <<>>, score_array |-> <<>>, sorted_indices |-> <<>>,
     k |-> 0, unscheduled_blocks |-> <<>>, best_time_idx |-> Unset]

\* `block` itself instead of a copy of it.
CopyAlias(hp, b) == [heap |-> hp, id |-> b]

\* copy.copy(block): a new object with the same attribute values, so the
\* same constraint list object.  The result is the heap and the new id.
Copy(hp, b) == [heap |-> Append(hp, hp[b]), id |-> Len(hp) + 1]

\* [copy.copy(block) for block in blocks], line 445: the heap with the
\* copies, and the new list of their ids.
RECURSIVE CopyAll(_, _, _)
CopyAll(hp, bs, done) ==
    IF bs = <<>> THEN [heap |-> hp, ids |-> done]
    ELSE LET c == Copy(hp, Head(bs))
         IN  CopyAll(c.heap, Tail(bs), Append(done, c.id))

\* Scheduler.__call__, lines 443-445; _make_schedule follows in steps.
Call(p) ==
    /\ calls[p].pc = "call"
    /\ schedulers' = [schedulers EXCEPT
                         ![calls[p].self].schedule = calls[p].schedule]
    /\ \E c \in {CopyAll(heap, calls[p].in_blocks, <<>>)} :
          /\ heap' = c.heap
          /\ calls' = [calls EXCEPT ![p].copied = c.ids, ![p].blocks = c.ids,
                                    ![p].pc = "prepare"]
    /\ UNCHANGED <<schedules, lists, given, tr>>

\* Lines 503-513 and 585-595 for one block b: its _all_constraints.  The
\* result is the lists heap, the id of b._all_constraints and the error.
AllConstraints(ls, self_constraints, b_constraints) ==
    LET joined ==
            IF b_constraints = None
              THEN [lists |-> ls, id |-> self_constraints, err |-> "none"]
            ELSE IF self_constraints = None
              THEN [lists |-> ls, id |-> None, err |-> "TypeError"]
            ELSE [lists |-> Append(ls, ls[self_constraints] \o ls[b_constraints]),
                  id |-> Len(ls) + 1, err |-> "none"]
        l == joined.lists
        a == joined.id
    IN  IF joined.err # "none" THEN joined
        ELSE IF a = None
          THEN [lists |-> Append(l, <<"alt">>), id |-> Len(l) + 1, err |-> "none"]
        ELSE IF \A i \in 1..Len(l[a]) : ~IsAltitudeConstraint(l[a][i])
          THEN [lists |-> [l EXCEPT ![a] = Append(@, "alt")], id |-> a,
                err |-> "none"]
        ELSE joined

\* The loop of lines 503-516 (585-599): every block gets _all_constraints,
\* _duration_offsets and observer.  The result is [heap, lists, err].
RECURSIVE PrepareBlocks(_, _, _, _)
PrepareBlocks(hp, ls, self, bs) ==
    IF bs = <<>> THEN [heap |-> hp, lists |-> ls, err |-> "none"]
    ELSE LET b == Head(bs)
             r == AllConstraints(ls, self.constraints, hp[b].constraints)
         IN  IF r.err # "none"
               THEN [heap |-> hp, lists |-> r.lists, err |-> r.err]
             ELSE PrepareBlocks(
                    [hp EXCEPT ![b].all_constraints = r.id,
                               ![b].offsets_of = hp[b].duration,
                               ![b].observer = self.observer],
                    r.lists, self, Tail(bs))

----------------------------------------------------------------------------
\* SequentialScheduler

\* schedule.observing_blocks
ObservingBlocks(sch, hp) ==
    SelectSeq([i \in 1..Len(sch.slots) |-> sch.slots[i].block],
              LAMBDA b : b # None /\ hp[b].kind = "ObservingBlock")

\* Lines 525-531: the transition to candidate b, as a set with the new
\* TransitionBlock, empty for `trans = None`.
SeqTransition(self, sch, hp, b, current_time) ==
    LET obs == ObservingBlocks(sch, hp)
    IN  IF Len(obs) > 0
          THEN {TransitionerCall(self.transitioner, hp[obs[Len(obs)]], hp[b],
                                 current_time)}
          ELSE {}

\* Lines 531-540: np.prod over all constraints of b and the three instants
\* current_time + transition_time + b._duration_offsets.
SeqFitness(ls, blk, trans, current_time) ==
    LET transition_time == IF trans = {} THEN 0
                           ELSE (CHOOSE t \in trans : TRUE).duration
        t0 == 2 * (current_time + transition_time)
        cs == ls[blk.all_constraints]
    IN  ScoreProduct(cs, blk.target, t0)
          * ScoreProduct(cs, blk.target, t0 + blk.offsets_of)
          * ScoreProduct(cs, blk.target, t0 + 2 * blk.offsets_of)

\* The first index of a positive value, the first index when there is none.
ArgFirstPositive(a) ==
    IF \E i \in 1..Len(a) : a[i] > 0
      THEN CHOOSE i \in 1..Len(a) :
               a[i] > 0 /\ \A j \in 1..(i - 1) : a[j] <= 0
      ELSE 1

\* np.argmax: the first index of the largest value (indices from 1).
ArgMax(a) ==
    CHOOSE i \in 1..Len(a) :
        /\ \A j \in 1..Len(a) : a[j] <= a[i]
        /\ \A j \in 1..(i - 1) : a[j] < a[i]

\* The sequence without its i-th element: list.pop(i).
Pop(seq, i) == SubSeq(seq, 1, i - 1) \o SubSeq(seq, i + 1, Len(seq))

\* SequentialScheduler._make_schedule, lines 503-517.
SeqPrepare(p) ==
    /\ calls[p].pc = "prepare"
    /\ schedulers[calls[p].self].kind = "sequential"
    /\ \E r \in {PrepareBlocks(heap, lists, schedulers[calls[p].self],
                               calls[p].blocks)} :
          /\ heap' = r.heap
          /\ lists' = r.lists
          /\ calls' =
               IF r.err # "none"
                 THEN [calls EXCEPT ![p].pc = "raised", ![p].err = r.err]
                 ELSE [calls EXCEPT
                         ![p].pc = "loop",
                         ![p].current_time =
                             schedules[schedulers[calls[p].self].schedule]
                                .start_time]
    /\ UNCHANGED <<schedules, schedulers, given, tr>>

\* Lines 521-530: block_transitions.
BlockTransitions(self, sch, hp, blocks, current_time) ==
    AsList([i \in 1..Len(blocks) |->
        SeqTransition(self, sch, hp, blocks[i], current_time)])

\* Lines 522-540: block_constraint_results.
BlockConstraintResults(ls, hp, blocks, block_transitions, current_time) ==
    AsList([i \in 1..Len(blocks) |->
        SeqFitness(ls, hp[blocks[i]], block_transitions[i], current_time)])

\* Line 562 and the state the round leaves; popped is the frame after
\* lines 556-560, r the outcome of insert_slot.
SeqAfterBlock(popped, r) ==
    [frame |-> IF r.err # "none"
                 THEN [popped EXCEPT !.pc = "raised", !.err = r.err]
                 ELSE popped,
     schedule |-> r.schedule, heap |-> r.heap]

\* Lines 556-562, after lines 550-553 left r (with the current_time they
\* reached).
SeqInsertBlock(f, r, bestblock_idx, value) ==
    LET newb == f.blocks[bestblock_idx]
        time2 == r.current_time + r.heap[newb].duration
    IN  IF r.err # "none"
          THEN [frame |-> [f EXCEPT !.pc = "raised", !.err = r.err],
                schedule |-> r.schedule, heap |-> r.heap]
          ELSE SeqAfterBlock(
                 [f EXCEPT !.current_time = time2,
                           !.blocks = Pop(f.blocks, bestblock_idx)],
                 InsertSlot(r.schedule,
                            [r.heap EXCEPT
                               ![newb].start_time = r.current_time,
                               ![newb].end_time = time2,
                               ![newb].constraints_value = value],
                            r.current_time, newb))

\* Line 553: current_time += trans.duration, after insert_slot left r.
SeqAfterTransition(r, tb, current_time) ==
    [schedule |-> r.schedule, heap |-> r.heap, err |-> r.err,
     current_time |-> current_time + r.heap[tb].duration]

\* Lines 550-553: the winner's transition goes into the Schedule.
SeqInsertTransition(sch, hp, trans, current_time) ==
    IF trans = {}
      THEN [schedule |-> sch, heap |-> hp, err |-> "none",
            current_time |-> current_time]
      ELSE SeqAfterTransition(
             InsertSlot(sch, Append(hp, CHOOSE t \in trans : TRUE),
                        (CHOOSE t \in trans : TRUE).start_time, Len(hp) + 1),
             Len(hp) + 1, current_time)

\* Lines 543-562.
SeqBest(f, self, sch, hp, block_transitions, block_constraint_results) ==
    LET bestblock_idx == ArgMax(block_constraint_results)
    IN  IF block_constraint_results[bestblock_idx] = 0
          THEN [frame |-> [f EXCEPT !.current_time = @ + self.gap_time],
                schedule |-> sch, heap |-> hp]
          ELSE SeqInsertBlock(f,
                   SeqInsertTransition(sch, hp, block_transitions[bestblock_idx],
                                       f.current_time),
                   bestblock_idx, block_constraint_results[bestblock_idx])

\* Lines 521-562, with block_transitions computed.
SeqScored(f, self, sch, hp, ls, block_transitions) ==
    SeqBest(f, self, sch, hp, block_transitions,
            BlockConstraintResults(ls, hp, f.blocks, block_transitions,
                                   f.current_time))

\* One round of the loop of lines 518-562, or its end and line 564, of the
\* run with frame f: the frame, the Schedule and the heap it leaves.
SeqRoundResult(f, self, sch, hp, ls) ==
    IF ~(Len(f.blocks) > 0 /\ f.current_time < sch.end_time)
      THEN [frame |-> [f EXCEPT !.pc = "returned", !.result = self.schedule],
            schedule |-> sch, heap |-> hp]
      ELSE SeqScored(f, self, sch, hp, ls,
               BlockTransitions(self, sch, hp, f.blocks, f.current_time))

SeqRound(p) ==
    /\ calls[p].pc = "loop"
    /\ schedulers[calls[p].self].kind = "sequential"
    /\ \E r \in {SeqRoundResult(calls[p], schedulers[calls[p].self],
                     schedules[schedulers[calls[p].self].schedule],
                     heap, lists)} :
          /\ calls' = [calls EXCEPT ![p] = r.frame]
          /\ schedules' =
                [schedules EXCEPT ![schedulers[calls[p].self].schedule] =
                    r.schedule]
          /\ heap' = r.heap
    /\ UNCHANGED <<lists, schedulers, given, tr>>

----------------------------------------------------------------------------
\* PriorityScheduler

\* np.ceil(a / b) for a >= 0 and b > 0.
CeilDiv(a, b) == (a + b - 1) \div b

\* len(time_grid_from_range([start, end], time_resolution)): the instants
\* start, start + resolution, ... before end.
GridLen(sch, res) == CeilDiv(sch.end_time - sch.start_time, res)

\* times[idx], idx counted from 0.
GridTime(sch, res, idx) == sch.start_time + idx * res

\* Scorer.create_score_array: the row of block blk.
ScoreRow(ls, global_constraints, blk, sch, res) ==
    [g \in 1..GridLen(sch, res) |->
        LET tt == 2 * GridTime(sch, res, g - 1)
        IN  (IF blk.constraints # None /\ ls[blk.constraints] # <<>>
               THEN ScoreProduct(ls[blk.constraints], blk.target, tt)
               ELSE 1)
              * ScoreProduct(ls[global_constraints], blk.target, tt)]

\* np.argsort(_block_priorities): for the short arrays of a block list numpy
\* sorts by insertion, which keeps equal priorities in list order.
ArgSort(prio) ==
    CHOOSE s \in [1..Len(prio) -> 1..Len(prio)] :
        /\ \A i, j \in 1..Len(prio) : i # j => s[i] # s[j]
        /\ \A i, j \in 1..Len(prio) :
              i < j => \/ prio[s[i]] < prio[s[j]]
                       \/ (prio[s[i]] = prio[s[j]] /\ s[i] < s[j])

\* PriorityScheduler._make_schedule, lines 583-616.
PriPrepare(p) ==
    /\ calls[p].pc = "prepare"
    /\ schedulers[calls[p].self].kind = "priority"
    /\ \E r \in {PrepareBlocks(heap, lists, schedulers[calls[p].self],
                               calls[p].blocks)} :
          LET f == calls[p]
              self == schedulers[f.self]
              sch == schedules[self.schedule]
              n == GridLen(sch, self.time_resolution)
          IN  /\ heap' = r.heap
              /\ lists' = r.lists
              /\ calls' =
                   IF r.err # "none"
                     THEN [calls EXCEPT ![p].pc = "raised", ![p].err = r.err]
                     ELSE [calls EXCEPT
                             ![p].pc = "loop",
                             ![p].is_open_time = [g \in 1..n |-> TRUE],
                             ![p].score_array =
                                 [i \in 1..Len(f.blocks) |->
                                     ScoreRow(r.lists, self.constraints,
                                              r.heap[f.blocks[i]], sch,
                                              self.time_resolution)],
                             ![p].sorted_indices =
                                 ArgSort([i \in 1..Len(f.blocks) |->
                                             r.heap[f.blocks[i]].priority]),
                             ![p].k = 1]
    /\ UNCHANGED <<schedules, schedulers, given, tr>>

\* Lines 630-634: max_config_time.
RECURSIVE SumMaxTimes(_, _)
SumMaxTimes(table, confs) ==
    IF confs = {} THEN 0
    ELSE LET c == CHOOSE c \in confs : TRUE
         IN  SetMax({e.time : e \in {e \in table : e.conf = c}})
               + SumMaxTimes(table, confs \ {c})

MaxConfigTime(trn) ==
    IF trn.instrument_reconfig_times # NoTable
         /\ trn.instrument_reconfig_times[1] # {}
      THEN SumMaxTimes(trn.instrument_reconfig_times[1],
                       {e.conf : e \in trn.instrument_reconfig_times[1]})
      ELSE 0

\* The angle of lines 635-636, in degrees.
BufferAngle == 160

\* Lines 635-642: _stride_by, the number of grid cells of
\* b.duration + buffer_time, where buffer_time is 160 deg / slew_rate +
\* max_config_time.
StrideBy(trn, duration, res) ==
    IF trn.slew_rate # None
      THEN CeilDiv((duration + MaxConfigTime(trn)) * trn.slew_rate + BufferAngle,
                   trn.slew_rate * res)
      ELSE CeilDiv(duration + MaxConfigTime(trn), res)

\* stride_array(constraint_scores, _stride_by): the window starts, counted
\* from 0; window j holds the cells j .. j + width - 1.
WindowStarts(n, width) == 0..(n - width)

\* Line 650: good.
Good(row, j, width) == \A g \in j..(j + width - 1) : row[g + 1] > 0

RECURSIVE SumRange(_, _, _)
SumRange(row, from, to) ==
    IF from > to THEN 0 ELSE row[from + 1] + SumRange(row, from + 1, to)

\* Lines 651-652: sum_scores.
SumScores(row, width) ==
    AsList([j1 \in 1..(Len(row) - width + 1) |->
        IF Good(row, j1 - 1, width) THEN SumRange(row, j1 - 1, j1 + width - 2)
        ELSE 0])

\* a[from:to] = False
CloseCells(is_open_time, from, to) ==
    AsList([g \in 1..Len(is_open_time) |->
        IF from <= g - 1 /\ g - 1 < to THEN FALSE ELSE is_open_time[g]])

\* Line 670-671: the indices q (from 0) of the slots that hold new_start_time.
SlotsHolding(slots, new_start_time) ==
    {q \in 0..(Len(slots) - 1) :
        /\ slots[q + 1].start < new_start_time + Tol
        /\ new_start_time + Tol < slots[q + 1].end}

SetMin(S) == CHOOSE m \in S : \A x \in S : m <= x

\* slots[i] for a Python index i, which counts from the end when negative.
PyIndexOk(slots, i) == -Len(slots) <= i /\ i < Len(slots)
PyIndex(slots, i) == IF i < 0 THEN slots[Len(slots) + i + 1] ELSE slots[i + 1]

IsKind(hp, b, kind) == b # None /\ hp[b].kind = kind

\* The locals of one placement, lines 665-726: L holds schedule, heap,
\* is_open_time, slot_index, new_start_time, best_time_idx, start_time_idx,
\* duration_indices, has_slots_after (the truth of slots_after, taken at
\* line 673), end_time_idx and err, the exception raised so far.
Raise(L, e) == [L EXCEPT !.err = e]

\* The Schedule and the heap a call on the Schedule left, and its exception.
WithOutcome(L, r) ==
    [L EXCEPT !.schedule = r.schedule, !.heap = r.heap, !.err = r.err]

\* Lines 680-681, 698-699 and 715-716: tb with its duration rounded up to
\* the grid, and times_indices.
RoundUp(tb, res) ==
    [tb |-> [tb EXCEPT !.duration = CeilDiv(tb.duration, res) * res],
     times_indices |-> CeilDiv(tb.duration, res)]

\* Lines 686-689 and 703-706: whether the block moves to the transition's end.
MovesToTransition(new_start_time, tb, gap_time) ==
    \/ new_start_time - tb.start_time < tb.duration
    \/ Abs(new_start_time - EndTime(tb)) < gap_time

\* Lines 688-689 and 705-706.
MoveToTransition(L, tb, gap_time, end_idx) ==
    IF MovesToTransition(L.new_start_time, tb, gap_time)
      THEN [L EXCEPT !.new_start_time = EndTime(tb),
                     !.start_time_idx = end_idx]
      ELSE L

\* Lines 691-692, after insert_slot.
PriCloseAfterInsert(L, start_idx, end_idx) ==
    IF L.err # "none" THEN L
    ELSE [L EXCEPT !.is_open_time = CloseCells(@, start_idx, end_idx),
                   !.slot_index = @ + 1]

\* Lines 682-692, with t the rounded transition of lines 678-681.
PriInsertTransition(L, self, start_idx, t) ==
    LET L1 == [L EXCEPT !.heap = Append(@, t.tb)]
        end_idx == t.times_indices + start_idx
    IN  IF t.tb.start_time = NoTime THEN Raise(L1, "TypeError")
        ELSE PriCloseAfterInsert(
               WithOutcome(
                 MoveToTransition(L1, t.tb, self.gap_time, end_idx),
                 InsertSlot(L.schedule, Append(L.heap, t.tb), t.tb.start_time,
                            Len(L.heap) + 1)),
               start_idx, end_idx)

\* Lines 676-692: the preceding slot holds an ObservingBlock.
PriAfterObservingBlock(L, self, b) ==
    LET prev == L.schedule.slots[L.slot_index]    \* slots[slot_index - 1]
    IN  PriInsertTransition(L, self, L.heap[prev.block].end_idx,
            RoundUp(TransitionerCall(self.transitioner, L.heap[prev.block],
                                     L.heap[b], prev.end),
                    self.time_resolution))

\* Lines 703-707, after change_slot_block.
PriAfterChange(L, self, tb, start_idx, end_idx) ==
    IF L.err # "none" THEN L
    ELSE IF tb.start_time = NoTime THEN Raise(L, "TypeError")
    ELSE [MoveToTransition(L, tb, self.gap_time, end_idx) EXCEPT
             !.is_open_time = CloseCells(@, start_idx, end_idx)]

\* Lines 700-707 with change_slot_block called on slot_index - 2, the slot
\* of the ObservingBlock the transition starts from.
PriChangeSource(L, self, start_idx, t) ==
    PriAfterChange(
        WithOutcome(L, ChangeSlotBlock(L.schedule, Append(L.heap, t.tb),
                                       IF L.slot_index - 2 < 0
                                         THEN Len(L.schedule.slots)
                                                + L.slot_index - 1
                                         ELSE L.slot_index - 1,
                                       Len(L.heap) + 1)),
        self, t.tb, start_idx, t.times_indices + start_idx)

\* Lines 700-707, with t the rounded transition of lines 696-699.
PriChangeTransition(L, self, start_idx, t) ==
    PriAfterChange(
        WithOutcome(L, ChangeSlotBlock(L.schedule, Append(L.heap, t.tb),
                                       L.slot_index, Len(L.heap) + 1)),
        self, t.tb, start_idx, t.times_indices + start_idx)

\* Lines 694-707: the preceding slot holds a TransitionBlock.
PriAfterTransitionBlock(L, self, b) ==
    LET slots == L.schedule.slots
        src == PyIndex(slots, L.slot_index - 2)
    IN  IF ~PyIndexOk(slots, L.slot_index - 2) THEN Raise(L, "IndexError")
        ELSE IF ~IsKind(L.heap, src.block, "ObservingBlock")
          \* None and a TransitionBlock have no end_idx (nor a target)
          THEN Raise(L, "AttributeError")
        ELSE PriChangeTransition(L, self, L.heap[src.block].end_idx,
                 RoundUp(TransitionerCall(self.transitioner, L.heap[src.block],
                                          L.heap[b], src.end),
                         self.time_resolution))

\* Lines 675-707.
PriBefore(L, self, b) ==
    IF L.slot_index = 0 THEN L     \* slots_before is empty
    ELSE LET prev == L.schedule.slots[L.slot_index]
         IN  IF IsKind(L.heap, prev.block, "ObservingBlock")
               THEN PriAfterObservingBlock(L, self, b)
             ELSE IF IsKind(L.heap, prev.block, "TransitionBlock")
               THEN PriAfterTransitionBlock(L, self, b)
             ELSE L

\* Line 708.
PriEndTimeIdx(L) ==
    [L EXCEPT !.end_time_idx = L.duration_indices + L.start_time_idx]

\* Lines 718-720, after insert_slot.
PriCloseFollowing(L, times_indices) ==
    IF L.err # "none" THEN L
    ELSE [L EXCEPT !.is_open_time =
             CloseCells(@, L.end_time_idx, L.end_time_idx + times_indices)]

\* The placement that inserts no transition after the block.
PriSkipFollowing(L, t) == L

\* Lines 717-720, with t the rounded transition of lines 713-716.
PriInsertFollowing(L, t) ==
    PriCloseFollowing(
        WithOutcome(L, InsertSlot(L.schedule, Append(L.heap, t.tb),
                                  t.tb.start_time, Len(L.heap) + 1)),
        t.times_indices)

\* Lines 710-720.
PriFollowing(L, self, b) ==
    LET slots == L.schedule.slots
        nxt == PyIndex(slots, L.slot_index + 1)
    IN  IF L.err # "none" \/ ~L.has_slots_after THEN L
        ELSE IF ~PyIndexOk(slots, L.slot_index + 1) THEN Raise(L, "IndexError")
        ELSE IF ~IsKind(L.heap, nxt.block, "ObservingBlock") THEN L
        ELSE PriInsertFollowing(L,
                 RoundUp(TransitionerCall(self.transitioner, L.heap[b],
                             L.heap[nxt.block],
                             L.new_start_time + L.heap[b].duration),
                         self.time_resolution))

\* Line 726, after insert_slot.
PriCloseBlock(L) ==
    IF L.err # "none" THEN L
    ELSE [L EXCEPT !.is_open_time =
             CloseCells(@, L.start_time_idx, L.end_time_idx)]

\* Lines 722-726.
PriInsertBlock(L, b) ==
    IF L.err # "none" THEN L
    ELSE PriCloseBlock(
           WithOutcome(L,
             InsertSlot(L.schedule,
                        [L.heap EXCEPT
                           ![b].constraints = L.heap[b].all_constraints,
                           ![b].end_idx = L.end_time_idx],
                        L.new_start_time, b)))

\* Lines 665-726: the placement of block b at grid index best_time_idx.
PriSchedule(sch, hp, is_open_time, self, b, best_time_idx) ==
    LET res == self.time_resolution
        new_start_time == GridTime(sch, res, best_time_idx)
        holding == SlotsHolding(sch.slots, new_start_time)
        L0 == [schedule |-> sch,
               heap |-> [hp EXCEPT ![b].duration = CeilDiv(@, res) * res],
               is_open_time |-> is_open_time,
               slot_index |-> 0, new_start_time |-> new_start_time,
               best_time_idx |-> best_time_idx,
               start_time_idx |-> best_time_idx,
               duration_indices |-> CeilDiv(hp[b].duration, res),
               has_slots_after |-> FALSE, end_time_idx |-> Unset,
               err |-> "none"]
    IN  IF holding = {} THEN Raise(L0, "IndexError")
        ELSE PriInsertBlock(
               PriFollowing(
                 PriEndTimeIdx(
                   PriBefore(
                     [L0 EXCEPT
                        !.slot_index = SetMin(holding),
                        !.has_slots_after = SetMin(holding) + 1 < Len(sch.slots)],
                     self, b)),
                 self, b),
               b)

\* Lines 654-731, after the placement left its locals L.
PriPlaced(f, L) ==
    [frame |-> [f EXCEPT
                  !.is_open_time = L.is_open_time,
                  !.best_time_idx = L.best_time_idx,
                  !.k = IF L.err = "none" THEN @ + 1 ELSE @,
                  !.err = L.err,
                  !.pc = IF L.err = "none" THEN "loop" ELSE "raised"],
     schedule |-> L.schedule, heap |-> L.heap]

\* Lines 630-731 for the block at sorted_indices[k], after line 626 wrote
\* its row of the score array.
PriPlaceBlock(f, self, sch, hp) ==
    LET b == f.blocks[f.sorted_indices[f.k]]
        constraint_scores == f.score_array[f.sorted_indices[f.k]]
        width == StrideBy(self.transitioner, hp[b].duration,
                          self.time_resolution)
    IN  IF \/ \A g \in 1..Len(constraint_scores) : constraint_scores[g] = 0
           \/ \A j \in WindowStarts(Len(constraint_scores), width) :
                 ~Good(constraint_scores, j, width)
          THEN [frame |-> [f EXCEPT !.unscheduled_blocks = Append(@, b),
                                    !.k = @ + 1],
                schedule |-> sch, heap |-> hp]
          ELSE PriPlaced(f,
                 PriSchedule(sch, hp, f.is_open_time, self, b,
                     ArgMax(SumScores(constraint_scores, width)) - 1))

\* Line 626, which writes through to score_array[i].
MaskClosed(f) ==
    [f EXCEPT !.score_array[f.sorted_indices[f.k]] =
        AsList([g \in 1..Len(@) |-> IF f.is_open_time[g] THEN @[g] ELSE 0])]

\* One round of the loop of lines 618-731, or its end and line 733, of the
\* run with frame f: the frame, the Schedule and the heap it leaves.
PriPlaceResult(f, self, sch, hp) ==
    IF f.k > Len(f.sorted_indices)
      THEN [frame |-> [f EXCEPT !.pc = "returned", !.result = self.schedule],
            schedule |-> sch, heap |-> hp]
      ELSE PriPlaceBlock(MaskClosed(f), self, sch, hp)

PriPlace(p) ==
    /\ calls[p].pc = "loop"
    /\ schedulers[calls[p].self].kind = "priority"
    /\ \E r \in {PriPlaceResult(calls[p], schedulers[calls[p].self],
                     schedules[schedulers[calls[p].self].schedule], heap)} :
          /\ calls' = [calls EXCEPT ![p] = r.frame]
          /\ schedules' =
                [schedules EXCEPT ![schedulers[calls[p].self].schedule] =
                    r.schedule]
          /\ heap' = r.heap
    /\ UNCHANGED <<lists, schedulers, given, tr>>

----------------------------------------------------------------------------
\* The inputs of the model.

\* The blocks a caller may hand to a Scheduler: has_constraints tells a
\* list of constraints from constraints=None.
Template(target, duration, priority, configuration, has_constraints, constraints) ==
    [target |-> target, duration |-> duration, priority |-> priority,
     configuration |-> configuration, has_constraints |-> has_constraints,
     constraints |-> constraints]

BlockTemplates ==
    {Template("A", 4, 1, {<<"filter", "B">>}, FALSE, <<>>),
     Template("A", 4, 2, {<<"filter", "V">>}, TRUE, <<"air">>),
     Template("B", 6, 1, {<<"filter", "B">>}, TRUE, <<"alt">>),
     Template("Z", 4, 2, {}, TRUE, <<"air">>),
     Template("A", 4, 3, {<<"filter", "V">>}, TRUE, <<"late">>),
     Template("A", Horizon + 8, 1, {<<"filter", "V">>}, FALSE, <<>>),
     Template("A", 5, 2, {<<"filter", "B">>}, TRUE, <<>>),
     Template("C", 6, 1, {<<"filter", "R">>}, TRUE, <<"alt">>),
     Template("D", 4, 2, {<<"filter", "B">>}, TRUE, <<"alt">>)}

\* The constraints handed to Scheduler.__init__.
GlobalConstraints == {<<>>, <<"alt">>, <<"air">>}

\* instrument_reconfig_times = {'filter': {('B', 'V'): 2, 'default': 4}}
FilterTable ==
    {[conf |-> "filter", old |-> "B", new |-> "V", time |-> 2],
     [conf |-> "filter", old |-> "default", new |-> "default", time |-> 4]}

\* The Transitioners: slew_rate None or 20 degrees per half second, with and
\* without a table of reconfiguration times.
Transitioners ==
    {Transitioner(None, NoTable), Transitioner(20, NoTable),
     Transitioner(None, <<FilterTable>>), Transitioner(20, <<FilterTable>>)}

\* instrument_reconfig_times = {'filter': {('R', 'R'): 2, ('B', 'V'): 0,
\* 'default': 0}}: a time for a pair of equal states, and times of zero.
SameStateTable ==
    {[conf |-> "filter", old |-> "R", new |-> "R", time |-> 2],
     [conf |-> "filter", old |-> "B", new |-> "V", time |-> 0],
     [conf |-> "filter", old |-> "default", new |-> "default", time |-> 0]}

\* The Transitioners a caller calls by hand.
ApiTransitioners ==
    Transitioners
      \cup {Transitioner(None, <<SameStateTable>>),
            Transitioner(20, <<SameStateTable>>)}

GapTimes == {4}
\* time_resolution: 2 s, and 1.5 s, which divides neither the horizon nor
\* the durations of the blocks.
TimeResolutions == {3, 4}

\* The caller's objects for a list of templates: the constraint lists (after
\* the list of the Scheduler, which is list 1) and the blocks.
RECURSIVE InputLists(_)
InputLists(ts) ==
    IF ts = <<>> THEN <<>>
    ELSE (IF Head(ts).has_constraints THEN <<Head(ts).constraints>> ELSE <<>>)
           \o InputLists(Tail(ts))

InputBlocks(ts, first_list) ==
    [i \in 1..Len(ts) |->
        ObservingBlock(ts[i].target, ts[i].duration, ts[i].priority,
            ts[i].configuration,
            IF ts[i].has_constraints
              THEN first_list + Len(InputLists(SubSeq(ts, 1, i))) - 1
              ELSE None)]

NoTransitionerCall ==
    [called |-> FALSE, self |-> Transitioner(None, NoTable),
     oldblock |-> None, newblock |-> None,
     start_time |-> NoTime, components_apply |-> FALSE,
     result |-> FromDuration(0)]

\* A caller with an empty Schedule it drives by hand.
InitApi ==
    /\ schedules = <<NewSchedule(0, HorizonApi)>>
    /\ heap = <<>>
    /\ lists = <<>>
    /\ schedulers = <<>>
    /\ calls = <<Frame("api", None, 1, <<>>)>>
    /\ given = [heap |-> heap, lists |-> lists,
                      in_blocks |-> [p \in 1..Len(calls) |-> calls[p].in_blocks]]
    /\ tr = NoTransitionerCall

\* A caller about to run a Scheduler of the given kinds on a list of blocks
\* and an empty Schedule.
InitRun(kinds) ==
    \E kind \in kinds, g \in GlobalConstraints, trn \in Transitioners,
       gap \in GapTimes, res \in TimeResolutions,
       n \in 0..MaxBlocks :
       \E ts \in [1..n -> BlockTemplates] :
          /\ schedules = <<NewSchedule(0, Horizon)>>
          /\ heap = InputBlocks(ts, 2)
          /\ lists = <<g>> \o InputLists(ts)
          /\ schedulers = <<Scheduler(kind, 1, trn, gap, res)>>
          /\ calls = <<Frame("call", 1, 1, [i \in 1..n |-> i])>>
          /\ given = [heap |-> heap, lists |-> lists,
                      in_blocks |-> [p \in 1..Len(calls) |-> calls[p].in_blocks]]
          /\ tr = NoTransitionerCall

Init == InitApi \/ InitRun({"sequential", "priority"})

----------------------------------------------------------------------------
\* The caller driving a Schedule by hand.

ApiResult(p, call, r) ==
    /\ schedules' = [schedules EXCEPT ![calls[p].schedule] = r.schedule]
    /\ heap' = r.heap
    /\ calls' = [calls EXCEPT ![p].n = @ + 1,
                              ![p].last = call,
                              ![p].err = r.err,
                              ![p].pc = IF r.err = "none" THEN "api" ELSE "raised"]
    /\ UNCHANGED <<lists, schedulers, given, tr>>

\* schedule.insert_slot(start_time, block) with a block the caller made.
ApiInsert(p) ==
    /\ calls[p].pc = "api"
    /\ calls[p].n < MaxCalls
    /\ \E start_time \in 0..HorizonApi, d \in 0..MaxApiDur,
          k \in {"ObservingBlock", "TransitionBlock"} :
          \E r \in {InsertSlot(schedules[calls[p].schedule],
                       Append(heap,
                              IF k = "ObservingBlock"
                                THEN ObservingBlock("A", d, 1, {}, None)
                                ELSE TransitionBlock({<<"duration", d>>}, NoTime)),
                       start_time, Len(heap) + 1)} :
             ApiResult(p, [NoCall EXCEPT !.op = "insert_slot",
                                         !.start_time = start_time,
                                         !.block = Len(heap) + 1,
                                         !.duration = d], r)

\* schedule.change_slot_block(slot_index, new_block) with a transition the
\* caller made.
ApiChangeSlotBlock(p) ==
    /\ calls[p].pc = "api"
    /\ calls[p].n < MaxCalls
    /\ \E slot_index \in 1..Len(schedules[calls[p].schedule].slots),
          d \in 0..MaxApiDur :
          \E r \in {ChangeSlotBlock(schedules[calls[p].schedule],
                      Append(heap, TransitionBlock({<<"duration", d>>}, NoTime)),
                      slot_index, Len(heap) + 1)} :
             ApiResult(p, [NoCall EXCEPT !.op = "change_slot_block",
                                         !.slot_index = slot_index,
                                         !.block = Len(heap) + 1,
                                         !.duration = d], r)

\* transitioner(oldblock, newblock, start_time, observer) on a Transitioner
\* and two blocks the caller made; the caller keeps the result.
ApiTransition(p) ==
    /\ calls[p].pc = "api"
    /\ calls[p].n = 0
    /\ \E trn \in ApiTransitioners, o \in BlockTemplates, n \in BlockTemplates,
          start_time \in {0, HorizonApi} :
          LET bs == InputBlocks(<<o, n>>, 1)
              res == TransitionerCall(trn, bs[1], bs[2], start_time)
          IN  tr' = [called |-> TRUE, self |-> trn,
                     oldblock |-> bs[1], newblock |-> bs[2],
                     start_time |-> start_time,
                     components_apply |->
                         res.components # {<<"duration", 0>>},
                     result |-> res]
    /\ calls' = [calls EXCEPT ![p].pc = "returned"]
    /\ UNCHANGED <<schedules, heap, lists, schedulers, given>>

Next ==
    \/ ApiInsert(1)
    \/ ApiChangeSlotBlock(1)
    \/ ApiTransition(1)
    \/ Call(1)
    \/ SeqPrepare(1)
    \/ SeqRound(1)
    \/ PriPrepare(1)
    \/ PriPlace(1)

Spec == Init /\ [][Next]_vars

----------------------------------------------------------------------------
\* Two runs of Scheduler.__call__ whose steps interleave.  Each run is given
\* its own empty Schedule and its own list of blocks; the two run on one
\* Scheduler instance or on two instances of the same configuration.

ConcTemplates ==
    {Template("A", 4, 1, {<<"filter", "B">>}, FALSE, <<>>),
     Template("A", 8, 2, {<<"filter", "V">>}, TRUE, <<"air">>)}

ConcTransitioners == {Transitioner(None, NoTable), Transitioner(20, NoTable)}

InitConc ==
    \E kind \in {"sequential", "priority"}, g \in GlobalConstraints,
       trn \in ConcTransitioners, same \in BOOLEAN, n1, n2 \in 1..2 :
       \E ts1 \in [1..n1 -> ConcTemplates], ts2 \in [1..n2 -> ConcTemplates] :
          /\ schedules = <<NewSchedule(0, Horizon), NewSchedule(0, Horizon)>>
          /\ lists = <<g, g>> \o InputLists(ts1) \o InputLists(ts2)
          /\ heap = InputBlocks(ts1, 3)
                      \o InputBlocks(ts2, 3 + Len(InputLists(ts1)))
          /\ schedulers =
                IF same THEN <<Scheduler(kind, 1, trn, 4, 4)>>
                ELSE <<Scheduler(kind, 1, trn, 4, 4),
                       Scheduler(kind, 2, trn, 4, 4)>>
          /\ calls = <<Frame("call", 1, 1, [i \in 1..n1 |-> i]),
                       Frame("call", IF same THEN 1 ELSE 2, 2,
                             [i \in 1..n2 |-> n1 + i])>>
          /\ given = [heap |-> heap, lists |-> lists,
                      in_blocks |-> [p \in 1..Len(calls) |-> calls[p].in_blocks]]
          /\ tr = NoTransitionerCall

NextConc ==
    \E p \in 1..2 :
        \/ Call(p)
        \/ SeqPrepare(p)
        \/ SeqRound(p)
        \/ PriPrepare(p)
        \/ PriPlace(p)

SpecConc == InitConc /\ [][NextConc]_vars

----------------------------------------------------------------------------
\* Properties

Callers == 1..Len(calls)

\* The frames that are runs of a Scheduler of one kind.
Runs(kind) ==
    {p \in Callers : calls[p].self # None
                       /\ schedulers[calls[p].self].kind = kind}

AllRuns == Runs("sequential") \cup Runs("priority")

\* The slots of the Schedule a caller was given.
SlotsOf(p) == schedules[calls[p].schedule].slots

\* Every call made on the caller's Schedule returned, or the last one was
\* an insert_slot that raised, which leaves the slots as they were: a
\* change_slot_block that raises has written to the slot before.
Intact(p) ==
    calls[p].err \notin {"IndexError: list index out of range",
                         "IndexError: slot afterwards is full"}

Partition(sch) ==
    /\ sch.slots[1].start = sch.start_time
    /\ sch.slots[Len(sch.slots)].end = sch.end_time
    /\ \A i \in 1..(Len(sch.slots) - 1) :
          sch.slots[i].end = sch.slots[i + 1].start

\* C1: after any sequence of successful insert_slot and change_slot_block
\* calls, made by a caller or by either scheduler, the first slot starts at
\* the horizon start, the last slot ends at the horizon end and every slot
\* ends where the next one starts.
PartitionInvariant ==
    \A p \in Callers : Intact(p) => Partition(schedules[calls[p].schedule])

\* C1 witness: a caller whose second or later call, a change_slot_block,
\* returned and left at least three slots.
PartitionWitness ==
    \E p \in Callers :
        /\ calls[p].err = "none"
        /\ calls[p].n >= 2
        /\ calls[p].last.op = "change_slot_block"
        /\ Len(SlotsOf(p)) >= 3

\* C2: after any sequence of successful calls no two adjacent slots are both
\* unoccupied, by the occupied flag and by the block they hold.
NoAdjacentUnoccupied ==
    \A p \in Callers :
        Intact(p) =>
            \A i \in 1..(Len(SlotsOf(p)) - 1) :
                /\ SlotsOf(p)[i].occupied \/ SlotsOf(p)[i + 1].occupied
                /\ SlotsOf(p)[i].block # None \/ SlotsOf(p)[i + 1].block # None

\* C2 witness: an insertion into the inside of a free slot left a free slot
\* on both sides of the occupied one.
NoAdjacentUnoccupiedWitness ==
    \E p \in Callers :
        /\ calls[p].err = "none"
        /\ \E i \in 1..(Len(SlotsOf(p)) - 2) :
              /\ ~SlotsOf(p)[i].occupied
              /\ SlotsOf(p)[i + 1].occupied
              /\ ~SlotsOf(p)[i + 2].occupied

\* C3: at every point of a run of either scheduler, so also after it
\* returned or raised, every block the caller handed in has the attribute
\* values it was built with, its constraint list has the same contents and
\* the caller's list of blocks is the same.
InputsUnchanged ==
    \A p \in AllRuns :
        /\ calls[p].in_blocks = given.in_blocks[p]
        /\ \A j \in 1..Len(calls[p].in_blocks) :
              LET b == calls[p].in_blocks[j]
              IN  /\ heap[b] = given.heap[b]
                  /\ heap[b].constraints # None =>
                        lists[heap[b].constraints]
                          = given.lists[heap[b].constraints]

\* C3 witness: a run returned after it placed the copy of an input block,
\* which got a start time.
InputsUnchangedWitness ==
    \E p \in AllRuns :
        /\ calls[p].pc = "returned"
        /\ \E j \in 1..Len(calls[p].copied), i \in 1..Len(SlotsOf(p)) :
              /\ SlotsOf(p)[i].block = calls[p].copied[j]
              /\ heap[calls[p].copied[j]].start_time # NoTime
              /\ heap[calls[p].in_blocks[j]].start_time = NoTime

\* C4: two runs given disjoint Schedules, on one Scheduler instance or on
\* two, do not interfere however their steps interleave: no slot of the
\* Schedule given to one run holds a copy the other run made, and a run that
\* returned returns the Schedule it was given.
RunsDoNotInterfere ==
    \A p \in AllRuns, q \in AllRuns :
        /\ p # q =>
              \A i \in 1..Len(SlotsOf(q)), j \in 1..Len(calls[p].copied) :
                  SlotsOf(q)[i].block # calls[p].copied[j]
        /\ calls[p].pc = "returned" => calls[p].result = calls[p].schedule

\* The declared constraints of input block b, its own and the scheduler's
\* global ones, score 0 at every instant of the horizon.
ZeroEverywhere(p, b) ==
    \A tt \in 0..(2 * schedules[calls[p].schedule].end_time - 1) :
        ScoreProduct(
            (IF given.heap[b].constraints = None THEN <<>>
             ELSE given.lists[given.heap[b].constraints])
              \o given.lists[schedulers[calls[p].self].constraints],
            given.heap[b].target, tt) = 0

\* C5: a block whose constraints score 0 at every instant of the horizon
\* occupies no slot; SequentialScheduler never selects it (its copy never
\* gets a start time) and a PriorityScheduler run that returned has it in
\* its unscheduled blocks.
ZeroScoreNeverSelected ==
    \A p \in AllRuns :
        \A j \in 1..Len(calls[p].copied) :
            ZeroEverywhere(p, calls[p].in_blocks[j]) =>
                /\ \A i \in 1..Len(SlotsOf(p)) :
                      SlotsOf(p)[i].block # calls[p].copied[j]
                /\ p \in Runs("sequential") =>
                      heap[calls[p].copied[j]].start_time = NoTime
                /\ p \in Runs("priority") /\ calls[p].pc = "returned" =>
                      \E u \in 1..Len(calls[p].unscheduled_blocks) :
                          calls[p].unscheduled_blocks[u] = calls[p].copied[j]

\* The slots that hold an ObservingBlock.
HoldingObservingBlock(slots, hp) ==
    {i \in 1..Len(slots) :
        slots[i].block # None /\ hp[slots[i].block].kind = "ObservingBlock"}

\* One step of a PriorityScheduler run keeps every slot that holds an
\* ObservingBlock: a slot of the same interval holds the same block after it.
PlacedSlotKept(p) ==
    \A i \in HoldingObservingBlock(SlotsOf(p), heap) :
        \E k \in 1..Len(schedules'[calls[p].schedule].slots) :
            schedules'[calls[p].schedule].slots[k] = SlotsOf(p)[i]

\* C6: during a PriorityScheduler run the slot of an ObservingBlock that was
\* inserted keeps its interval and its block through every later placement,
\* transition insertion and change_slot_block.
PlacedBlocksStay ==
    [][\A p \in Runs("priority") : PlacedSlotKept(p)]_vars

\* C6 witness: a PriorityScheduler run returned with two ObservingBlocks
\* placed after change_slot_block replaced a transition between them, which
\* is left in no slot.
PlacedBlocksStayWitness ==
    \E p \in Runs("priority") :
        /\ calls[p].pc = "returned"
        /\ Cardinality(HoldingObservingBlock(SlotsOf(p), heap)) >= 2
        /\ \E t \in 1..Len(heap) :
              /\ heap[t].kind = "TransitionBlock"
              /\ \A i \in 1..Len(SlotsOf(p)) : SlotsOf(p)[i].block # t

\* C7: a SequentialScheduler run never ends in the error of a block longer
\* than its slot: a candidate that does not fit before the horizon end is
\* left unscheduled.
SequentialLeavesUnscheduled ==
    \A p \in Runs("sequential") :
        calls[p].err # "ValueError: longer block than slot"

\* C8: the TransitionBlock a Transitioner returns starts at the start_time
\* it was called with, and has duration zero when no component applies.
TransitionIsPlaceable ==
    tr.called =>
        /\ tr.result.start_time = tr.start_time
        /\ ~tr.components_apply => tr.result.duration = 0

\* C9: every slot of the Schedule of a run that raised nothing ends strictly
\* after it starts.
SlotsHavePositiveLength ==
    \A p \in AllRuns :
        calls[p].err = "none" =>
            \A i \in 1..Len(SlotsOf(p)) : SlotsOf(p)[i].end > SlotsOf(p)[i].start

\* The slots that contain the instant start_time.
Containing(slots, start_time) ==
    {j \in 1..Len(slots) :
        slots[j].start <= start_time /\ start_time < slots[j].end}

\* The step is insert_slot(start_time, block) called by caller p.
IsInsert(p) ==
    /\ calls'[p].n = calls[p].n + 1
    /\ calls'[p].last.op = "insert_slot"

\* insert_slot raised 'longer block than slot' exactly when the block was
\* longer, by more than the tolerance, than the slot containing start_time,
\* and then left the slots and the block as they were.
LongerExactly(p) ==
    LET last == calls'[p].last
        raised == calls'[p].err = "ValueError: longer block than slot"
    IN  /\ raised <=>
              \E j \in Containing(SlotsOf(p), last.start_time) :
                  last.duration - SlotDuration(SlotsOf(p)[j]) > Tol
        /\ raised =>
              /\ schedules' = schedules
              /\ heap'[last.block].duration = last.duration
              /\ heap'[last.block].start_time = NoTime
              /\ heap'[last.block].end_time = NoTime

\* C10: insert_slot(start_time, block) raises 'longer block than slot'
\* exactly when block.duration exceeds the duration of the slot containing
\* start_time by more than one second, and then the slots and the block's
\* duration, start and end are unchanged.
LongerBlockRaisesExactly ==
    [][\A p \in Callers : IsInsert(p) => LongerExactly(p)]_vars

\* The slots insert_slot may take for start_time: those that start before
\* it or less than one second after it and end more than one second after
\* it; it takes the last of them.
TakenFor(slots, start_time) ==
    {j \in 1..Len(slots) :
        /\ slots[j].start < start_time + Tol
        /\ start_time + Tol < slots[j].end}

\* The slot insert_slot takes for start_time is occupied.
TakesOccupied(slots, start_time) ==
    /\ TakenFor(slots, start_time) # {}
    /\ \A j \in TakenFor(slots, start_time) :
          (\A j2 \in TakenFor(slots, start_time) : j2 <= j)
              => slots[j].occupied

\* Every occupied slot of the caller's Schedule is a slot of it after the
\* step, with the same interval and block.
OccupiedSlotsKept(p) ==
    \A i \in 1..Len(SlotsOf(p)) :
        SlotsOf(p)[i].occupied =>
            \E k \in 1..Len(schedules'[calls[p].schedule].slots) :
                schedules'[calls[p].schedule].slots[k] = SlotsOf(p)[i]

\* C11 (as amended): insert_slot raises when the slot it takes for
\* start_time, the last one that starts before start_time or less than one
\* second after it and ends more than one second after it, is occupied; an
\* insert_slot that raises leaves the slots as they were; and no insert_slot
\* overwrites or fragments an occupied slot.
OccupiedSlotsNotSplit ==
    [][\A p \in Callers :
          IsInsert(p) =>
              /\ TakesOccupied(SlotsOf(p), calls'[p].last.start_time)
                    => calls'[p].err # "none"
              /\ calls'[p].err # "none" => schedules' = schedules
              /\ OccupiedSlotsKept(p)]_vars

\* C11 witness: insert_slot raised 'slot is already occupied' on a Schedule
\* that holds a block.
OccupiedSlotsNotSplitWitness ==
    \E p \in Callers :
        /\ calls[p].last.op = "insert_slot"
        /\ calls[p].err = "ValueError: slot is already occupied"
        /\ \E i \in 1..Len(SlotsOf(p)) : SlotsOf(p)[i].occupied

\* C11 as stated: insert_slot with a start_time inside an occupied slot
\* raises and leaves the slots as they were.
InsertInsideOccupiedFails ==
    [][\A p \in Callers :
          IsInsert(p) =>
              ((\E j \in Containing(SlotsOf(p), calls'[p].last.start_time) :
                    SlotsOf(p)[j].occupied)
                  => calls'[p].err # "none" /\ schedules' = schedules)]_vars

\* The step is change_slot_block(slot_index, new_block) called by caller p,
\* and it returned.
IsChange(p) ==
    /\ calls'[p].n = calls[p].n + 1
    /\ calls'[p].last.op = "change_slot_block"
    /\ calls'[p].err = "none"

\* What a change_slot_block(i, b) that returned did to the slots.
ChangeFrame(old, new, hp, i, b) ==
    /\ Len(new) = Len(old)
    /\ new[i].start = old[i].start
    /\ new[i].end = old[i].start + hp[b].duration
    /\ new[i].block = b
    /\ new[i + 1].start = new[i].end
    /\ new[i + 1].end = old[i + 1].end
    /\ new[i + 1].occupied = old[i + 1].occupied
    /\ new[i + 1].block = old[i + 1].block
    /\ \A k \in 1..Len(old) : k \notin {i, i + 1} => new[k] = old[k]

\* C12: a change_slot_block(slot_index, new_block) that returns keeps the
\* slot's start, sets its end to start + new_block.duration and its block to
\* new_block, sets the following slot's start to that end and leaves the
\* following slot's end and every other slot unchanged.
ChangeSlotBlockFrame ==
    [][\A p \in Callers :
          IsChange(p) =>
              ChangeFrame(SlotsOf(p), schedules'[calls[p].schedule].slots,
                          heap', calls'[p].last.slot_index,
                          calls'[p].last.block)]_vars

\* C12 witness: a change_slot_block returned that gave a slot between two
\* others a new end, different from its start, and a new block.
ChangeSlotBlockFrameWitness ==
    \E p \in Callers :
        /\ calls[p].err = "none"
        /\ calls[p].last.op = "change_slot_block"
        /\ calls[p].last.slot_index > 1
        /\ Len(SlotsOf(p)) > calls[p].last.slot_index + 1
        /\ SlotsOf(p)[calls[p].last.slot_index].block = calls[p].last.block
        /\ SlotsOf(p)[calls[p].last.slot_index].end
              = SlotsOf(p)[calls[p].last.slot_index].start
                  + calls[p].last.duration
        /\ calls[p].last.duration > 0

\* C13: every ObservingBlock in a slot of a Schedule that a Scheduler
\* returned has end_time = start_time + duration, its slot is exactly
\* [start_time, end_time) and its duration is a whole non-negative multiple
\* of the scheduler's time_resolution.
ScheduledBlocksOnGrid ==
    \A p \in AllRuns :
        calls[p].pc = "returned" =>
            \A i \in HoldingObservingBlock(SlotsOf(p), heap) :
                /\ heap[SlotsOf(p)[i].block].end_time
                      = heap[SlotsOf(p)[i].block].start_time
                          + heap[SlotsOf(p)[i].block].duration
                /\ SlotsOf(p)[i].start = heap[SlotsOf(p)[i].block].start_time
                /\ SlotsOf(p)[i].end = heap[SlotsOf(p)[i].block].end_time
                /\ heap[SlotsOf(p)[i].block].duration >= 0
                /\ heap[SlotsOf(p)[i].block].duration
                      % schedulers[calls[p].self].time_resolution = 0

\* Input block b of run p scores above 0 at every instant of the horizon
\* under its own constraints, the scheduler's and the default altitude
\* constraint.
AlwaysFeasible(p, b) ==
    \A tt \in 0..(2 * schedules[calls[p].schedule].end_time) :
        ScoreProduct(
            (IF given.heap[b].constraints = None THEN <<>>
             ELSE given.lists[given.heap[b].constraints])
              \o given.lists[schedulers[calls[p].self].constraints]
              \o <<"alt">>,
            given.heap[b].target, tt) > 0

\* Run p was given two always feasible blocks of distinct priorities on a
\* horizon that holds both with their buffers.
TwoFeasibleBlocks(p) ==
    /\ Len(calls[p].in_blocks) = 2
    /\ \A j \in 1..2 : AlwaysFeasible(p, calls[p].in_blocks[j])
    /\ given.heap[calls[p].in_blocks[1]].priority
          # given.heap[calls[p].in_blocks[2]].priority
    /\ StrideBy(schedulers[calls[p].self].transitioner,
                given.heap[calls[p].in_blocks[1]].duration,
                schedulers[calls[p].self].time_resolution)
         + StrideBy(schedulers[calls[p].self].transitioner,
                    given.heap[calls[p].in_blocks[2]].duration,
                    schedulers[calls[p].self].time_resolution)
         <= GridLen(schedules[calls[p].schedule],
                    schedulers[calls[p].self].time_resolution)

\* The slots of run p that hold the copy of its j-th input block.
SlotsWithCopy(p, j) ==
    {i \in 1..Len(SlotsOf(p)) : SlotsOf(p)[i].block = calls[p].copied[j]}

\* C14: a PriorityScheduler run on two always feasible blocks of distinct
\* priorities, on a horizon long enough for both and their buffers, raises
\* nothing with any Transitioner, and when it returned both blocks occupy
\* slots that do not overlap and have only transitions between them.
TwoBlocksBothPlaced ==
    \A p \in Runs("priority") :
        TwoFeasibleBlocks(p) =>
            /\ calls[p].err = "none"
            /\ calls[p].pc = "returned" =>
                  \E a \in SlotsWithCopy(p, 1), b \in SlotsWithCopy(p, 2) :
                      /\ a # b
                      /\ \/ SlotsOf(p)[a].end <= SlotsOf(p)[b].start
                         \/ SlotsOf(p)[b].end <= SlotsOf(p)[a].start
                      /\ \A k \in 1..Len(SlotsOf(p)) :
                            (a < k /\ k < b) \/ (b < k /\ k < a) =>
                                IsKind(heap, SlotsOf(p)[k].block,
                                       "TransitionBlock")

\* The fitness of every candidate left in the pool of sequential run p, as
\* a round that starts in this state computes it.
RoundFitness(p) ==
    BlockConstraintResults(lists, heap, calls[p].blocks,
        BlockTransitions(schedulers[calls[p].self], schedules[calls[p].schedule],
                         heap, calls[p].blocks, calls[p].current_time),
        calls[p].current_time)

\* Run p is about to make a round of the loop, not to leave it.
InRound(p) ==
    /\ calls[p].pc = "loop"
    /\ Len(calls[p].blocks) > 0
    /\ calls[p].current_time < schedules[calls[p].schedule].end_time

\* Index best of the pool is a candidate of maximum fitness, the first one.
FirstMaximum(fit, best) ==
    /\ \A j \in 1..Len(fit) : fit[j] <= fit[best]
    /\ \A j \in 1..(best - 1) : fit[j] < fit[best]

\* The round of run p with fitness values fit placed the first candidate of
\* maximum fitness, took it from the pool and recorded its fitness on it; or
\* placed nothing when every fitness is zero.
RoundPlacesBest(p, fit) ==
    IF \A j \in 1..Len(fit) : fit[j] = 0
      THEN /\ schedules' = schedules
           /\ calls'[p].blocks = calls[p].blocks
      ELSE \E best \in 1..Len(fit) :
              /\ FirstMaximum(fit, best)
              /\ calls'[p].blocks = Pop(calls[p].blocks, best)
              /\ heap'[calls[p].blocks[best]].constraints_value = fit[best]
              /\ \E i \in 1..Len(schedules'[calls[p].schedule].slots) :
                    schedules'[calls[p].schedule].slots[i].block
                        = calls[p].blocks[best]

\* C15: a round of SequentialScheduler in which some candidate has non-zero
\* fitness places a candidate of maximum fitness, the first in pool order,
\* takes it from the pool and records that fitness on it; a round in which
\* every fitness is zero places no block.
SequentialPlacesBest ==
    [][\A p \in Runs("sequential") :
          InRound(p) /\ calls'[p] # calls[p] =>
              RoundPlacesBest(p, RoundFitness(p))]_vars

\* A round of run p that put an ObservingBlock of the pool into a slot.
RoundPlacedOnly(p, fit) ==
    \A best \in 1..Len(fit) :
        (\E i \in 1..Len(schedules'[calls[p].schedule].slots) :
             schedules'[calls[p].schedule].slots[i].block
                 = calls[p].blocks[best])
          => /\ fit[best] # 0
             /\ FirstMaximum(fit, best)
             /\ calls'[p].blocks = Pop(calls[p].blocks, best)
             /\ heap'[calls[p].blocks[best]].constraints_value = fit[best]

\* Whenever a round of SequentialScheduler places a block, it is the first
\* candidate of maximum, non-zero fitness, taken from the pool, with that
\* fitness recorded.
SequentialPlacedIsBest ==
    [][\A p \in Runs("sequential") :
          InRound(p) /\ calls'[p] # calls[p] =>
              RoundPlacedOnly(p, RoundFitness(p))]_vars

\* Priority run p is about to place the block at sorted_indices[k].
InPlacement(p) ==
    /\ calls[p].pc = "loop"
    /\ calls[p].k <= Len(calls[p].sorted_indices)

\* The block the placement of run p is about.
PlacementBlock(p) == calls[p].blocks[calls[p].sorted_indices[calls[p].k]]

\* The grid cells (counted from 1) whose instant lies in the slot.
CellsOf(p, slot) ==
    {g \in 1..Len(calls[p].is_open_time) :
        /\ slot.start <= GridTime(schedules[calls[p].schedule],
                                  schedulers[calls[p].self].time_resolution,
                                  g - 1)
        /\ GridTime(schedules[calls[p].schedule],
                    schedulers[calls[p].self].time_resolution, g - 1)
              < slot.end}

\* Every cell of the slot the placement gave its block was open and had a
\* score above zero for the block when the placement began.
PlacedOnGoodCells(p) ==
    \A i \in 1..Len(schedules'[calls[p].schedule].slots) :
        schedules'[calls[p].schedule].slots[i].block = PlacementBlock(p) =>
            \A g \in CellsOf(p, schedules'[calls[p].schedule].slots[i]) :
                /\ calls[p].is_open_time[g]
                /\ calls[p].score_array[calls[p].sorted_indices[calls[p].k]][g]
                      > 0

\* C16: every grid cell an ObservingBlock placed by PriorityScheduler
\* occupies, after any shift of its start to the end of the preceding
\* transition, was open in the mask and had a score above zero for that
\* block when it was placed.
PlacedCellsWereFeasible ==
    [][\A p \in Runs("priority") :
          InPlacement(p) /\ calls'[p] # calls[p] => PlacedOnGoodCells(p)]_vars

\* The score of block b of run p at grid cell g (counted from 1) under its
\* effective constraints, the list _all_constraints that lines 585-595 gave
\* it: its own constraints, the scheduler's and the default altitude
\* constraint when none of those is one.
EffectiveScore(p, b, g) ==
    ScoreProduct(lists[heap[b].all_constraints], heap[b].target,
                 2 * GridTime(schedules[calls[p].schedule],
                              schedulers[calls[p].self].time_resolution,
                              g - 1))

\* C17: the score array PriorityScheduler built, before any row is masked,
\* holds for every block and grid instant the product of the block's
\* effective constraints, so it is zero wherever one of them is zero.
ScoreArrayIsEffective ==
    \A p \in Runs("priority") :
        calls[p].pc = "loop" /\ calls[p].k = 1 =>
            \A i \in 1..Len(calls[p].blocks) :
                \A g \in 1..Len(calls[p].score_array[i]) :
                    calls[p].score_array[i][g]
                        = EffectiveScore(p, calls[p].blocks[i], g)

\* The exceptions of insert_slot that a placement into a free window is
\* meant never to meet.
PlacementErrors ==
    {"ValueError: longer block than slot",
     "ValueError: slot is already occupied",
     "IndexError: slot afterwards is full"}

\* C18: a run of PriorityScheduler never ends in one of the placement
\* errors: once a fully feasible window is selected, the transitions around
\* the block and the block itself are all inserted.
PlacementCompletes ==
    \A p \in Runs("priority") :
        calls[p].pc = "raised" => calls[p].err \notin PlacementErrors

\* buffer_time of lines 635-638 is at least the duration d: with a slew
\* rate, 160 deg / slew_rate + max_config_time >= d, both sides multiplied
\* by the slew rate.
BufferCovers(trn, d) ==
    IF trn.slew_rate # None
      THEN d * trn.slew_rate <= BufferAngle + MaxConfigTime(trn) * trn.slew_rate
      ELSE d <= MaxConfigTime(trn)

\* C19: the buffer PriorityScheduler reserves is at least the duration the
\* Transitioner computed (the sum of the components, before the rounding to
\* the grid) for every TransitionBlock in the Schedule of a priority run.
BufferBoundsTransitions ==
    \A p \in Runs("priority") :
        \A i \in 1..Len(SlotsOf(p)) :
            IsKind(heap, SlotsOf(p)[i].block, "TransitionBlock") =>
                BufferCovers(schedulers[calls[p].self].transitioner,
                             SumTimes(heap[SlotsOf(p)[i].block].components))

\* A step of run p that is one round of the loop of lines 618-731.
IsPlaceRound(p) ==
    /\ p \in Runs("priority")
    /\ calls[p].pc = "loop"
    /\ calls[p].k <= Len(calls[p].sorted_indices)
    /\ calls'[p] # calls[p]

\* The row of the score array the round of run p works on, after line 626.
RoundRow(p) ==
    MaskClosed(calls[p]).score_array[calls[p].sorted_indices[calls[p].k]]

\* The number of cells of the window of the round of run p.
RoundWidth(p) ==
    StrideBy(schedulers[calls[p].self].transitioner,
             heap[calls[p].blocks[calls[p].sorted_indices[calls[p].k]]].duration,
             schedulers[calls[p].self].time_resolution)

\* The window starts whose cells are all feasible.
FeasibleStarts(row, width) ==
    {j \in WindowStarts(Len(row), width) : Good(row, j, width)}

\* The round of run p declared its block unschedulable exactly when no
\* window is fully feasible, and otherwise chose the earliest of the fully
\* feasible windows of the largest sum.
WindowChosen(p, row, width) ==
    /\ calls'[p].unscheduled_blocks # calls[p].unscheduled_blocks
          <=> FeasibleStarts(row, width) = {}
    /\ FeasibleStarts(row, width) # {} =>
          /\ calls'[p].best_time_idx \in FeasibleStarts(row, width)
          /\ \A j \in FeasibleStarts(row, width) :
                /\ SumRange(row, j, j + width - 1)
                      <= SumRange(row, calls'[p].best_time_idx,
                                  calls'[p].best_time_idx + width - 1)
                /\ j < calls'[p].best_time_idx =>
                      SumRange(row, j, j + width - 1)
                          < SumRange(row, calls'[p].best_time_idx,
                                     calls'[p].best_time_idx + width - 1)

\* C20: for each block PriorityScheduler handles, the chosen window start is
\* a fully feasible position of maximal window sum, the earliest one on a
\* tie, and the block is declared unschedulable exactly when no position is
\* fully feasible.
WindowChoice ==
    [][\A p \in Callers :
          IsPlaceRound(p) => WindowChosen(p, RoundRow(p), RoundWidth(p))]_vars

\* The last round of run p chose, with the width given, a window that is not
\* the first although the first was fully feasible too, and placed its
\* block: the choice went by the window sums.
LaterWindowWon(p, i, width) ==
    /\ calls[p].best_time_idx > 0
    /\ Good(calls[p].score_array[i], 0, width)
    /\ \E s \in 1..Len(SlotsOf(p)) : SlotsOf(p)[s].block = calls[p].blocks[i]

WindowChoiceWitness ==
    \E p \in Runs("priority") :
        /\ calls[p].pc = "loop"
        /\ calls[p].k >= 2
        /\ LaterWindowWon(p, calls[p].sorted_indices[calls[p].k - 1],
               StrideBy(schedulers[calls[p].self].transitioner,
                        heap[calls[p].in_blocks[
                            calls[p].sorted_indices[calls[p].k - 1]]].duration,
                        schedulers[calls[p].self].time_resolution))

\* The indices of the slots of a list that hold a block of the kind.
SlotsOfKind(slots, hp, kind) ==
    {i \in 1..Len(slots) : IsKind(hp, slots[i].block, kind)}

\* The slots i < j hold ObservingBlocks and no slot between them holds one.
ConsecutiveObservingBlocks(slots, hp, i, j) ==
    /\ i < j
    /\ {i, j} \subseteq SlotsOfKind(slots, hp, "ObservingBlock")
    /\ \A m \in (i + 1)..(j - 1) : ~IsKind(hp, slots[m].block, "ObservingBlock")

\* The TransitionBlock of slot i starts at the end of an ObservingBlock in
\* slot i - 1 and has the components the transitioner trn computes from that
\* block to the ObservingBlock of the first later slot that holds one.
TransitionMatches(slots, hp, trn, i) ==
    /\ i > 1
    /\ IsKind(hp, slots[i - 1].block, "ObservingBlock")
    /\ slots[i].start = slots[i - 1].end
    /\ hp[slots[i].block].start_time = slots[i - 1].end
    /\ \E j \in SlotsOfKind(slots, hp, "ObservingBlock") :
          /\ ConsecutiveObservingBlocks(slots, hp, i - 1, j)
          /\ hp[slots[i].block].components
                = TransitionerCall(trn, hp[slots[i - 1].block],
                                   hp[slots[j].block],
                                   slots[i - 1].end).components

\* Every TransitionBlock of the slots matches its neighbours and every two
\* consecutive ObservingBlocks have exactly one TransitionBlock between them.
TransitionsMatch(slots, hp, trn) ==
    /\ \A i \in SlotsOfKind(slots, hp, "TransitionBlock") :
          TransitionMatches(slots, hp, trn, i)
    /\ \A i, j \in SlotsOfKind(slots, hp, "ObservingBlock") :
          ConsecutiveObservingBlocks(slots, hp, i, j) =>
              Cardinality({m \in (i + 1)..(j - 1) :
                              IsKind(hp, slots[m].block, "TransitionBlock")}) = 1

\* C21: after every completed placement step of a PriorityScheduler run the
\* transitions match the neighbourhood: each TransitionBlock follows an
\* ObservingBlock, is the transition from it to the next ObservingBlock, and
\* each pair of consecutive ObservingBlocks has exactly one between them.
TransitionsMatchNeighbourhood ==
    \A p \in Runs("priority") :
        calls[p].pc \in {"loop", "returned"} /\ calls[p].k >= 1 =>
            TransitionsMatch(SlotsOf(p), heap,
                             schedulers[calls[p].self].transitioner)

\* C21 witness: a run placed a block between two ObservingBlocks it had
\* placed before: the transition that followed the first was replaced (it is
\* in no slot any more) and two transitions are in the Schedule.
TransitionsMatchNeighbourhoodWitness ==
    \E p \in Runs("priority") :
        /\ calls[p].pc \in {"loop", "returned"}
        /\ Cardinality(SlotsOfKind(SlotsOf(p), heap, "TransitionBlock")) >= 2
        /\ Cardinality(SlotsOfKind(SlotsOf(p), heap, "ObservingBlock")) >= 3
        /\ \E b \in 1..Len(heap) :
              /\ heap[b].kind = "TransitionBlock"
              /\ \A i \in 1..Len(SlotsOf(p)) : SlotsOf(p)[i].block # b

\* C22: every TransitionBlock held by a slot of the Schedule of a run of
\* either scheduler has the sum of its components as its duration and ends,
\* at start_time + duration, where its slot ends.
TransitionDurationIsComponents ==
    \A p \in AllRuns :
        \A i \in SlotsOfKind(SlotsOf(p), heap, "TransitionBlock") :
            /\ heap[SlotsOf(p)[i].block].duration
                  = SumTimes(heap[SlotsOf(p)[i].block].components)
            /\ EndTime(heap[SlotsOf(p)[i].block]) = SlotsOf(p)[i].end

\* The names of the configuration keys of a block.
ConfKeys(block) == {c[1] : c \in block.configuration}

\* The state of key k in the configuration of a block that has the key.
ConfState(block, k) == (CHOOSE c \in block.configuration : c[1] = k)[2]

\* The components of a transition that are reconfiguration times.
ReconfigComponents(tb) ==
    {c \in tb.components : c[1] \notin {"slew_time", "duration"}}

\* The name of the component of key k from state old to state new.
ComponentName(k, old, new) == k \o ":" \o old \o " to " \o new

\* The component the table gives key k from state old to state new: the time
\* of the pair (old, new) when the table of k has one, else the non-zero
\* default time of k when the states differ, else none.
ExpectedComponent(table, k, old, new) ==
    IF \E e \in table : e.conf = k /\ e.old = old /\ e.new = new
      THEN {<<ComponentName(k, old, new),
              (CHOOSE e \in table : e.conf = k /\ e.old = old /\ e.new = new).time>>}
    ELSE IF old # new /\ \E e \in table :
                 e.conf = k /\ e.old = "default" /\ e.time # 0
      THEN {<<ComponentName(k, old, new),
              (CHOOSE e \in table : e.conf = k /\ e.old = "default").time>>}
    ELSE {}

\* C23 (as amended): the reconfiguration components of a transition hold
\* one entry for each key that both blocks have and for which the table has
\* a time for the pair (old state, new state), equal states included, or,
\* the states being different, a non-zero default time; its value is the
\* pair's time or else the default time; no other key has a component.
ReconfigurationComponents ==
    tr.called /\ tr.self.instrument_reconfig_times # NoTable =>
        ReconfigComponents(tr.result)
            = UNION {ExpectedComponent(tr.self.instrument_reconfig_times[1], k,
                                       ConfState(tr.oldblock, k),
                                       ConfState(tr.newblock, k)) :
                        k \in ConfKeys(tr.oldblock) \cap ConfKeys(tr.newblock)}

\* C23 witness: a call gave a component by the default time, the table
\* having no time for the pair of states.
ReconfigurationComponentsWitness ==
    /\ tr.called
    /\ tr.self.instrument_reconfig_times = <<FilterTable>>
    /\ \E c \in ReconfigComponents(tr.result) :
          c = <<ComponentName("filter", "V", "B"), 4>>

\* C23 as stated: a key has a component only when its state differs between
\* the two blocks.
ComponentOnlyWhenStateDiffers ==
    tr.called =>
        \A k \in ConfKeys(tr.oldblock) \cap ConfKeys(tr.newblock) :
            ConfState(tr.oldblock, k) = ConfState(tr.newblock, k) =>
                \A c \in ReconfigComponents(tr.result) :
                    c[1] # ComponentName(k, ConfState(tr.oldblock, k),
                                         ConfState(tr.newblock, k))

\* A step of run p that is one iteration of the loop of lines 518-562.
IsSeqIteration(p) ==
    /\ p \in Runs("sequential")
    /\ calls[p].pc = "loop"
    /\ Len(calls[p].blocks) > 0
    /\ calls[p].current_time < schedules[calls[p].schedule].end_time
    /\ calls'[p] # calls[p]

\* The iteration took exactly one block out of the pool and did not move
\* current_time back.
RemovesOneBlock(p) ==
    /\ \E i \in 1..Len(calls[p].blocks) :
          calls'[p].blocks = Pop(calls[p].blocks, i)
    /\ calls'[p].current_time >= calls[p].current_time

\* The iteration moved current_time on by the gap time and left the pool
\* and the Schedule as they were.
AdvancesByGap(p) ==
    /\ calls'[p].current_time
          = calls[p].current_time + schedulers[calls[p].self].gap_time
    /\ calls'[p].blocks = calls[p].blocks
    /\ schedules' = schedules

\* C24: every iteration of the loop of a SequentialScheduler run either
\* takes exactly one block out of the pool or moves current_time on by the
\* gap time with the pool and the Schedule unchanged, and current_time never
\* decreases, so the run terminates.
EachIterationProgresses ==
    [][\A p \in Callers :
          IsSeqIteration(p) => RemovesOneBlock(p) \/ AdvancesByGap(p)]_vars

\* The iterations that do not raise progress as C24 says, and current_time
\* never decreases: with a positive gap time the number of blocks in the pool
\* plus the time left to the horizon end goes down in each of them.
CompletedIterationsProgress ==
    [][\A p \in Callers :
          IsSeqIteration(p) =>
              /\ calls'[p].current_time >= calls[p].current_time
              /\ calls'[p].err = "none" =>
                    RemovesOneBlock(p) \/ AdvancesByGap(p)]_vars


\* C25: in a SequentialScheduler run a winning transition of zero duration
\* is not inserted: no slot of the Schedule holds a TransitionBlock of zero
\* duration.
ZeroTransitionNotInserted ==
    \A p \in Runs("sequential") :
        \A i \in SlotsOfKind(SlotsOf(p), heap, "TransitionBlock") :
            heap[SlotsOf(p)[i].block].duration > 0

\* The step is change_slot_block(slot_index, new_block) called by caller p
\* with the slot after slot_index holding a block.
IsChangeBeforeOccupied(p) ==
    /\ calls'[p].n = calls[p].n + 1
    /\ calls'[p].last.op = "change_slot_block"
    /\ calls'[p].last.slot_index + 1 <= Len(SlotsOf(p))
    /\ SlotsOf(p)[calls'[p].last.slot_index + 1].block # None

\* C26: change_slot_block on a slot whose following slot is occupied raises
\* and leaves the Schedule as it was before the call.
ChangeSlotBlockAtomic ==
    [][\A p \in Callers :
          IsChangeBeforeOccupied(p) =>
              /\ calls'[p].err # "none"
              /\ schedules' = schedules]_vars

\* C27: at every point of a run of either scheduler the constraint list the
\* Scheduler was built with has the elements, in the order, the caller put
\* into it.
GlobalConstraintsUnchanged ==
    \A p \in AllRuns :
        lists[schedulers[calls[p].self].constraints]
            = given.lists[schedulers[calls[p].self].constraints]

\* The grid cells (counted from 1) of run p whose instant lies inside a
\* slot that holds a block.
OccupiedCells(p) ==
    {g \in 1..Len(calls[p].is_open_time) :
        \E i \in 1..Len(SlotsOf(p)) :
            /\ SlotsOf(p)[i].block # None
            /\ SlotsOf(p)[i].start
                  <= GridTime(schedules[calls[p].schedule],
                              schedulers[calls[p].self].time_resolution, g - 1)
            /\ GridTime(schedules[calls[p].schedule],
                        schedulers[calls[p].self].time_resolution, g - 1)
                  < SlotsOf(p)[i].end}

\* C28: after every completed placement step of a PriorityScheduler run
\* every grid cell whose instant lies inside a slot that holds a block is
\* closed in is_open_time.
OccupiedCellsAreClosed ==
    \A p \in Runs("priority") :
        calls[p].pc \in {"loop", "returned"} /\ calls[p].k >= 1 =>
            \A g \in OccupiedCells(p) : ~calls[p].is_open_time[g]

====
